---- MODULE Spec2Model ----
(***************************************************************************)
(* A model of messaging.message (the Message entity and its JSON codec)   *)
(* and of messaging.generator, as run by a Python 3 interpreter           *)
(* (_py3 = TRUE: the _py2 branches of the source are dead in that build). *)
(*                                                                         *)
(* Representation                                                          *)
(*   a text string    [t |-> "str",   v |-> <<code points>>]               *)
(*   a binary string  [t |-> "bytes", v |-> <<bytes 0..255>>]              *)
(*   None             [t |-> "None",  v |-> <<>>]                          *)
(*   a dict           a function from keys to values                       *)
(*   the "+"-joined encoding string: the sequence of its "+"-separated     *)
(*   fields (a bijection, since no token holds a "+")                      *)
(***************************************************************************)
EXTENDS Integers, Sequences, FiniteSets, TLC

VARIABLES
    compressors,  \* _COMPRESSORS: the compression modules this build imported
    heap,         \* the dict objects that exist, by identity (SpecRef only)
    msg,          \* the Message under conversion / mutation
    msg_b,        \* a second Message (comparison operand, generated message)
    opt,          \* the option dict handed to jsonify/stringify/serialize
    out,          \* what the forward conversion returned (or raised)
    back,         \* what the inverse conversion returned (or raised)
    gen,          \* the Generator object (options and index)
    pc            \* position of the driver

vars == <<compressors, heap, msg, msg_b, opt, out, back, gen, pc>>

----------------------------------------------------------------------------
(* Values *)

Str(s) == [t |-> "str", v |-> s]

Bytes(b) == [t |-> "bytes", v |-> b]

None == [t |-> "None", v |-> <<>>]

\* an exception of the given Python type, raised instead of a result
Raised(type, what) == [t |-> "raised", type |-> type, what |-> what]

IsRaised(x) == "t" \in DOMAIN x /\ x.t = "raised"

Nothing == [t |-> "nothing"]

_py3 == TRUE

is_bytes(string) == string.t = "bytes"

\* DEFAULT_BODY as the empty text string
DEFAULT_BODY_Text == Str(<<>>)

\* DEFAULT_BODY = "".encode()
DEFAULT_BODY == Bytes(<<>>)

\* the test "not self.body" taken as "self.body is None"
Truthy_NotNone(x) == x.t # "None"

\* truth value of a string or None: non-empty
Truthy(x) == x.t # "None" /\ Len(x.v) > 0

\* Body(value), value being computed once (a local variable of the code)
With(value, Body(_)) == CHOOSE result \in {Body(x) : x \in {value}} : TRUE

\* the sequence 1, 2, ..., n
Indices(n) == [i \in 1..n |-> i]

\* ss[lo] \o ... \o ss[hi], by halves (the depth of the recursion stays logarithmic)
RECURSIVE FlattenRange(_, _, _)
FlattenRange(ss, lo, hi) ==
    IF lo > hi THEN <<>>
    ELSE IF lo = hi THEN ss[lo]
    ELSE LET mid == (lo + hi) \div 2
         IN FlattenRange(ss, lo, mid) \o FlattenRange(ss, mid + 1, hi)

Flatten(ss) == With(ss, LAMBDA each : FlattenRange(each, 1, Len(each)))

\* ns[lo] + ... + ns[hi]
RECURSIVE SumRange(_, _, _)
SumRange(ns, lo, hi) ==
    IF lo > hi THEN 0
    ELSE IF lo = hi THEN ns[lo]
    ELSE LET mid == (lo + hi) \div 2
         IN SumRange(ns, lo, mid) + SumRange(ns, mid + 1, hi)

----------------------------------------------------------------------------
(* UTF-8, as str.encode("utf-8") and bytes.decode("utf-8") *)

IsSurrogate(c) == c \in 55296..57343

Utf8EncodeChar(c) ==
    IF c < 128 THEN <<c>>
    ELSE IF c < 2048 THEN <<192 + (c \div 64), 128 + (c % 64)>>
    ELSE IF c < 65536
         THEN <<224 + (c \div 4096), 128 + ((c \div 64) % 64), 128 + (c % 64)>>
    ELSE <<240 + (c \div 262144), 128 + ((c \div 4096) % 64),
           128 + ((c \div 64) % 64), 128 + (c % 64)>>

\* text.encode("utf-8"): UnicodeEncodeError on a lone surrogate
Utf8Encode(s) ==
    IF \E i \in 1..Len(s) : IsSurrogate(s[i])
    THEN Raised("UnicodeEncodeError", "surrogates not allowed")
    ELSE Bytes(Flatten([i \in 1..Len(s) |-> Utf8EncodeChar(s[i])]))

IsCont(b) == b \in 128..191

\* how many bytes the sequence led by byte b0 takes; 0 for a continuation byte
\* and for a byte that can lead nothing (0xC0, 0xC1, 0xF5..0xFF)
Utf8Width(b0) ==
    IF b0 < 128 THEN 1
    ELSE IF b0 \in 194..223 THEN 2
    ELSE IF b0 \in 224..239 THEN 3
    ELSE IF b0 \in 240..244 THEN 4
    ELSE 0

\* a whole, well-formed sequence starts at b[i]
Utf8WellLed(b, i) ==
    LET w == Utf8Width(b[i]) IN
    /\ w > 0
    /\ i + w - 1 <= Len(b)
    /\ \A j \in (i + 1)..(i + w - 1) : IsCont(b[j])
    /\ (b[i] = 224 => b[i + 1] >= 160)
    /\ (b[i] = 237 => b[i + 1] < 160)
    /\ (b[i] = 240 => b[i + 1] >= 144)
    /\ (b[i] = 244 => b[i + 1] < 144)

\* the continuation byte b[i] belongs to the sequence led d bytes before it
Utf8Owned(b, i) ==
    \E d \in 1..3 :
        /\ i - d >= 1
        /\ Utf8Width(b[i - d]) > d
        /\ \A j \in (i - d + 1)..(i - 1) : IsCont(b[j])

Utf8CodePoint(b, i) ==
    LET w == Utf8Width(b[i]) IN
    IF w = 1 THEN b[i]
    ELSE IF w = 2 THEN (b[i] - 192) * 64 + (b[i + 1] - 128)
    ELSE IF w = 3
         THEN (b[i] - 224) * 4096 + (b[i + 1] - 128) * 64 + (b[i + 2] - 128)
    ELSE (b[i] - 240) * 262144 + (b[i + 1] - 128) * 4096
         + (b[i + 2] - 128) * 64 + (b[i + 3] - 128)

\* binary.decode("utf-8"): UnicodeDecodeError unless every byte is part of a
\* well-formed sequence
Utf8Decode(b) ==
    LET Leads(i) == ~IsCont(b[i])
    IN IF \A i \in 1..Len(b) :
              IF IsCont(b[i]) THEN Utf8Owned(b, i) ELSE Utf8WellLed(b, i)
       THEN With(SelectSeq(Indices(Len(b)), Leads), LAMBDA leads :
                Str([k \in 1..Len(leads) |-> Utf8CodePoint(b, leads[k])]))
       ELSE Raised("UnicodeDecodeError", "invalid utf-8")

----------------------------------------------------------------------------
(* base64.b64encode / base64.b64decode *)

B64Pad == 61

B64Char(i) ==
    IF i < 26 THEN 65 + i
    ELSE IF i < 52 THEN 97 + (i - 26)
    ELSE IF i < 62 THEN 48 + (i - 52)
    ELSE IF i = 62 THEN 43 ELSE 47

\* the sextet a character stands for, 64 for a character outside the alphabet
B64Value(c) ==
    IF c \in 65..90 THEN c - 65
    ELSE IF c \in 97..122 THEN c - 97 + 26
    ELSE IF c \in 48..57 THEN c - 48 + 52
    ELSE IF c = 43 THEN 62
    ELSE IF c = 47 THEN 63 ELSE 64

Pow64(k) == IF k = 0 THEN 1 ELSE IF k = 1 THEN 64 ELSE IF k = 2 THEN 4096 ELSE 262144

b64encode(b) ==
    LET n == Len(b)
        groups == (n + 2) \div 3
        At(k) == IF k <= n THEN b[k] ELSE 0
        Quad(g) == At(3 * g + 1) * 65536 + At(3 * g + 2) * 256 + At(3 * g + 3)
    IN [j \in 1..(4 * groups) |->
           LET g == (j - 1) \div 4
               p == (j - 1) % 4
           IN IF (p = 2 /\ 3 * g + 2 > n) \/ (p = 3 /\ 3 * g + 3 > n)
              THEN B64Pad
              ELSE B64Char((Quad(g) \div Pow64(3 - p)) % 64)]

IsB64Data(c) == B64Value(c) < 64

IsB64DataOrPad(c) == IsB64Data(c) \/ c = B64Pad

\* the bytes that the data characters (whole quads, then 2 or 3 characters) spell
B64Bytes(data) ==
    [k \in 1..((Len(data) * 6) \div 8) |->
        LET g == 4 * ((k - 1) \div 3)
            r == (k - 1) % 3
            X(j) == B64Value(data[j])
        IN IF r = 0 THEN X(g + 1) * 4 + (X(g + 2) \div 16)
           ELSE IF r = 1 THEN (X(g + 2) % 16) * 16 + (X(g + 3) \div 4)
           ELSE (X(g + 3) % 4) * 64 + X(g + 4)]

\* where the input ends: at the first pad that completes a quad, or after the last
\* character. With q data characters of the current quad read, a pad completes
\* the quad once q >= 2 and q plus the pads read since the last data character
\* reach 4.
B64Stop(kept) ==
    LET Quad(i) == Len(SelectSeq(SubSeq(kept, 1, i - 1), IsB64Data)) % 4
        ends == {i \in 1..Len(kept) :
                    /\ kept[i] = B64Pad
                    /\ \/ Quad(i) = 3
                       \/ Quad(i) = 2 /\ i > 1 /\ kept[i - 1] = B64Pad}
    IN With(ends, LAMBDA e :
           IF e = {} THEN Len(kept) + 1 ELSE CHOOSE i \in e : \A j \in e : i <= j)

\* base64.b64decode(s) = binascii.a2b_base64, not strict: characters outside the
\* alphabet are skipped, and an incomplete quad at the end of the input is an error
b64decode(s) ==
    With(SelectSeq(s, IsB64DataOrPad), LAMBDA kept :
    With(B64Stop(kept), LAMBDA stop :
    With(SelectSeq(SubSeq(kept, 1, stop - 1), IsB64Data), LAMBDA data :
        IF stop > Len(kept) /\ Len(data) % 4 # 0
        THEN Raised("binascii.Error", "Incorrect padding")
        ELSE Bytes(B64Bytes(data)))))

----------------------------------------------------------------------------
(* The compression modules (lz4.block, snappy, zlib): external libraries,   *)
(* modelled by each library's real framing of the output followed by a      *)
(* run-length payload <<count, byte, count, byte, ...>>.                   *)

COMPRESSORS_SUPPORTED == {"lz4", "snappy", "zlib"}

AVAILABLE_DECODING == COMPRESSORS_SUPPORTED \cup {"base64", "utf8"}

MaxRun == 255

\* the run-length payload of b: each maximal run of one byte, cut in pieces of at
\* most MaxRun, as <<count, byte>>
Rle(b) ==
    LET Starts(i) == i = 1 \/ b[i] # b[i - 1]
    IN With(SelectSeq(Indices(Len(b)), Starts), LAMBDA starts :
        LET RunEnd(r) == IF r = Len(starts) THEN Len(b) ELSE starts[r + 1] - 1
            RunLen(r) == RunEnd(r) - starts[r] + 1
            Pieces(r) == (RunLen(r) + MaxRun - 1) \div MaxRun
        IN Flatten([r \in 1..Len(starts) |->
               [x \in 1..(2 * Pieces(r)) |->
                   IF x % 2 = 0 THEN b[starts[r]]
                   ELSE IF x < 2 * Pieces(r) - 1 THEN MaxRun
                   ELSE RunLen(r) - MaxRun * (Pieces(r) - 1)]]))

\* the bytes a payload stands for
UnRle(z) ==
    Flatten([r \in 1..(Len(z) \div 2) |-> [j \in 1..z[2 * r - 1] |-> z[2 * r]]])

RECURSIVE Varint(_)
Varint(n) == IF n < 128 THEN <<n>> ELSE <<128 + (n % 128)>> \o Varint(n \div 128)

\* the bytes each library writes before the payload of an input of n bytes:
\* zlib's two header bytes, lz4.block's 4-byte little-endian size, snappy's varint size
Frame(alg, n) ==
    IF alg = "zlib" THEN <<120, 156>>
    ELSE IF alg = "lz4"
         THEN <<n % 256, (n \div 256) % 256, (n \div 65536) % 256, (n \div 16777216) % 256>>
    ELSE Varint(n)

\* _COMPRESSORS[alg].compress(data)
Compress(alg, b) == With(Rle(b), LAMBDA payload : Frame(alg, Len(b)) \o payload)

\* the length of the frame that starts z: 2 (zlib), 4 (lz4), or up to the first
\* byte under 128 (the last byte of snappy's varint)
FrameLen(alg, z) ==
    IF alg = "zlib" THEN 2
    ELSE IF alg = "lz4" THEN 4
    ELSE IF \A i \in 1..Len(z) : z[i] >= 128 THEN Len(z) + 1
    ELSE CHOOSE i \in 1..Len(z) : z[i] < 128 /\ \A j \in 1..(i - 1) : z[j] >= 128

\* _COMPRESSORS[alg].decompress(data) / uncompress(data): the library's error
\* unless data is a frame followed by the payload the frame announces
Decompress(alg, z) ==
    With(FrameLen(alg, z), LAMBDA k :
    With(SubSeq(z, k + 1, Len(z)), LAMBDA payload :
    With(SumRange([r \in 1..(Len(payload) \div 2) |-> payload[2 * r - 1]],
                  1, Len(payload) \div 2), LAMBDA n :
        IF /\ k <= Len(z)
           /\ Len(payload) % 2 = 0
           /\ \A r \in 1..(Len(payload) \div 2) : payload[2 * r - 1] \in 1..MaxRun
           /\ SubSeq(z, 1, k) = Frame(alg, n)
        THEN Bytes(UnRle(payload))
        ELSE Raised(alg \o ".error", "invalid compressed data"))))

----------------------------------------------------------------------------
(* class Message *)

EmptyDict == <<>>

Dict(d) == [t |-> "dict", v |-> d]

\* set_body without its last line: the flag is not recomputed
set_body_KeepFlag(self, value) ==
    LET body == IF value = None THEN DEFAULT_BODY ELSE value
    IN [self EXCEPT !.body = body]

\* set_body without its test of None: the value is stored as given
set_body_KeepNone(self, value) ==
    [self EXCEPT !.body = value, !.text = ~is_bytes(value)]

\* Message.set_body: None becomes DEFAULT_BODY, and the text flag is recomputed
set_body(self, value) ==
    LET body == IF value = None THEN DEFAULT_BODY ELSE value
    IN [self EXCEPT !.body = body, !.text = ~is_bytes(body)]

\* Message.set_header: None becomes a new empty dict
set_header(self, value) ==
    [self EXCEPT !.header = IF value = None THEN EmptyDict ELSE value.v]

\* Message.set_text: the flag is stored as given
set_text(self, value) == [self EXCEPT !.text = value]

\* Message.get_text / Message.is_text
is_text(self) == IF self.body = None THEN FALSE ELSE self.text

\* Message.__init__(body=DEFAULT_BODY, header=None)
Message(body, header) ==
    set_header(set_body([body |-> None, header |-> EmptyDict, text |-> FALSE], body),
               header)

\* Message(): both arguments defaulted
NewMessage == Message(DEFAULT_BODY, None)

\* Message.__eq__ / Message.equals, both operands being Messages: the flag and the
\* body match, and every item of self.header is in other.header
MessageEq(self, other) ==
    IF self.text # other.text \/ self.body # other.body THEN FALSE
    ELSE \A key \in DOMAIN self.header :
            key \in DOMAIN other.header /\ self.header[key] = other.header[key]

\* Message.size
size(self) ==
    LET RECURSIVE Sum(_)
        Sum(keys) == IF keys = {} THEN 0
                     ELSE LET key == CHOOSE k \in keys : TRUE
                          IN Len(key) + Len(self.header[key]) + 2 + Sum(keys \ {key})
    IN Len(self.body.v) + 1 + Sum(DOMAIN self.header)

\* Message.md5. md5_hash is modelled as an ideal digest: Md5Hash(x) stands for the
\* hex digest of x, and two digests are equal exactly when their inputs are.
Md5Hash(data) == [md5 |-> data]

LexLess(a, b) ==
    \E i \in 1..(Len(a) + 1) :
        /\ i <= Len(b)
        /\ \A j \in 1..(i - 1) : j <= Len(a) /\ a[j] = b[j]
        /\ (i = Len(a) + 1 \/ (i <= Len(a) /\ a[i] < b[i]))

\* sorted(keys)
RECURSIVE Sorted(_)
Sorted(keys) ==
    IF keys = {} THEN <<>>
    ELSE LET first == CHOOSE k \in keys : \A k2 \in keys \ {k} : LexLess(k, k2)
         IN <<first>> \o Sorted(keys \ {first})

md5(self) ==
    With(Sorted(DOMAIN self.header), LAMBDA keys :
    With(Utf8Encode(Flatten([i \in 1..Len(keys) |->
             keys[i] \o <<58>> \o self.header[keys[i]] \o <<10>>])), LAMBDA header_c :
    With(IF is_text(self)
         THEN IF is_bytes(self.body)
              THEN Raised("AttributeError", "bytes has no encode")
              ELSE Utf8Encode(self.body.v)
         ELSE self.body, LAMBDA body_c :
        IF IsRaised(header_c) THEN header_c
        ELSE IF IsRaised(body_c) THEN body_c
        ELSE IF ~is_bytes(body_c) THEN Raised("TypeError", "md5 of str")
        ELSE Md5Hash(<<IF is_text(self) THEN 1 ELSE 0,
                       Md5Hash(header_c.v), Md5Hash(body_c.v)>>))))

----------------------------------------------------------------------------
(* Message.jsonify and its helpers.                                         *)
(* A JSON-compatible dict is [t |-> "dict", has |-> the keys present,       *)
(* header, body, text, encoding]; a field whose key is not in has is not    *)
(* there (its value is a placeholder). While jsonify runs, encoding is the  *)
(* dict of the tokens recorded, kept as the sequence of its keys.           *)

EmptyObj ==
    [t |-> "dict", has |-> {}, header |-> EmptyDict, body |-> DEFAULT_BODY,
     text |-> FALSE, encoding |-> <<>>]

\* an option dict: without the key "compression", or with it
NoOption == [has |-> FALSE, compression |-> ""]

WithCompression(token) == [has |-> TRUE, compression |-> token]

COMPRESS_MIN_LEN == 255

RatioNum == 9

RatioDen == 10

\* string starts with prefix, for the tokens of the model: a module name, a module
\* name followed by a suffix ("-9"), or a string no module name starts
StartsWith(string, prefix) == string = prefix \/ string = prefix \o "-9"

\* _COMPRESSORS_RE built from the names of COMPRESSORS_SUPPORTED rather than from
\* the modules imported
COMPRESSORS_RE_match_Supported(compression) ==
    \E name \in COMPRESSORS_SUPPORTED : StartsWith(compression, name)

\* _COMPRESSORS_RE.match(compression): "^(lz4|snappy|zlib)" over the imported
\* modules; with none imported the pattern is "^()", which matches everything
COMPRESSORS_RE_match(compression) ==
    compressors = {} \/ \E name \in compressors : StartsWith(compression, name)

\* _EX_BASE64_RE.search(text): a character in [\x00-\x1f\x7f-\xff]
EX_BASE64_RE_search(text) ==
    \E i \in 1..Len(text) : text[i] <= 31 \/ text[i] \in 127..255

\* _EX_ASCII_RE.match(text): the first character is in [\x80-\xff]
EX_ASCII_RE_match(text) == Len(text) > 0 /\ text[1] \in 128..255

\* _base64_it without its test: the body is always encoded
_base64_it_Always(obj) ==
    IF ~is_bytes(obj.body) THEN Raised("TypeError", "decoding str is not supported")
    ELSE [obj EXCEPT !.body = Bytes(b64encode(obj.body.v)),
                     !.encoding = Append(@, "base64")]

\* _base64_it that looks for control bytes only and not for bytes that are not UTF-8
_base64_it_ControlOnly(obj) ==
    IF ~is_bytes(obj.body) THEN Raised("TypeError", "decoding str is not supported")
    ELSE IF ~\E i \in 1..Len(obj.body.v) : obj.body.v[i] <= 31
         THEN obj
    ELSE [obj EXCEPT !.body = Bytes(b64encode(obj.body.v)),
                     !.encoding = Append(@, "base64")]

\* _base64_it(obj): base64 unless the body decodes as UTF-8 to a text free of
\* control and \x7f-\xff characters
_base64_it(obj) ==
    IF ~is_bytes(obj.body) THEN Raised("TypeError", "decoding str is not supported")
    ELSE With(Utf8Decode(obj.body.v), LAMBDA decoded :
             IF ~IsRaised(decoded) /\ ~EX_BASE64_RE_search(decoded.v)
             THEN obj
             ELSE [obj EXCEPT !.body = Bytes(b64encode(obj.body.v)),
                              !.encoding = Append(@, "base64")])

\* _utf8_it recording the token only for a text with a character above U+007F
_utf8_it_WhenNeeded(obj) ==
    IF is_bytes(obj.body) THEN Raised("AttributeError", "bytes has no encode")
    ELSE With(Utf8Encode(obj.body.v), LAMBDA encoded :
             IF IsRaised(encoded) THEN encoded
             ELSE [obj EXCEPT !.body = encoded,
                              !.encoding = IF \E i \in 1..Len(obj.body.v) :
                                                  obj.body.v[i] > 127
                                              THEN Append(@, "utf8") ELSE @])

\* _utf8_it(obj)
_utf8_it(obj) ==
    IF _py3 \/ EX_ASCII_RE_match(obj.body.v)
    THEN IF is_bytes(obj.body) THEN Raised("AttributeError", "bytes has no encode")
         ELSE With(Utf8Encode(obj.body.v), LAMBDA encoded :
                  IF IsRaised(encoded) THEN encoded
                  ELSE [obj EXCEPT !.body = encoded, !.encoding = Append(@, "utf8")])
    ELSE obj

\* _compress_it without the test of the ratio: the compressed body is always kept
_compress_it_NoRatio(compression, obj) ==
    LET body_len == Len(obj.body.v)
    IN IF body_len < COMPRESS_MIN_LEN THEN obj
       ELSE IF compression \notin compressors THEN Raised("KeyError", compression)
       ELSE IF ~is_bytes(obj.body) THEN Raised("TypeError", "bytes-like object required")
       ELSE [obj EXCEPT !.body = Bytes(Compress(compression, obj.body.v)),
                        !.encoding = Append(@, compression)]

\* _compress_it without the test of the length: a short body is compressed too
_compress_it_NoMinLen(compression, obj) ==
    LET body_len == Len(obj.body.v)
    IN IF compression \notin compressors THEN Raised("KeyError", compression)
       ELSE IF ~is_bytes(obj.body) THEN Raised("TypeError", "bytes-like object required")
       ELSE With(Compress(compression, obj.body.v), LAMBDA tmp :
                IF Len(tmp) * RatioDen < body_len * RatioNum
                THEN [obj EXCEPT !.body = Bytes(tmp),
                                 !.encoding = Append(@, compression)]
                ELSE obj)

\* _compress_it(compression, obj): float(len(tmp)) / body_len < 0.9 is
\* len(tmp) * 10 < body_len * 9 (the quotient of two lengths is never within
\* rounding of 0.9 without being 0.9)
_compress_it(compression, obj) ==
    LET body_len == Len(obj.body.v)
    IN IF body_len < COMPRESS_MIN_LEN THEN obj
       ELSE IF compression \notin compressors THEN Raised("KeyError", compression)
       ELSE IF ~is_bytes(obj.body) THEN Raised("TypeError", "bytes-like object required")
       ELSE With(Compress(compression, obj.body.v), LAMBDA tmp :
                IF Len(tmp) * RatioDen < body_len * RatioNum
                THEN [obj EXCEPT !.body = Bytes(tmp),
                                 !.encoding = Append(@, compression)]
                ELSE obj)

\* the end of jsonify: "+".join of the recorded tokens, or no encoding field
JoinEncoding(obj) ==
    IF IsRaised(obj) THEN obj
    ELSE IF "encoding" \in obj.has /\ obj.encoding = <<>>
         THEN [obj EXCEPT !.has = @ \ {"encoding"}]
    ELSE obj

\* the text branch without its call of _base64_it: the compressed bytes are the body
JsonifyTextCompressed_Unencoded(self, compression, obj) ==
    With(_utf8_it([obj EXCEPT !.has = @ \cup {"encoding"}, !.encoding = <<>>]),
         LAMBDA utf8ed :
        IF IsRaised(utf8ed) THEN utf8ed
        ELSE With(_compress_it(compression, utf8ed), LAMBDA compressed :
                 IF IsRaised(compressed) THEN compressed
                 ELSE IF Len(utf8ed.encoding) # Len(compressed.encoding)
                      THEN compressed
                 ELSE [compressed EXCEPT !.body = self.body,
                                         !.has = @ \ {"encoding"},
                                         !.encoding = <<>>]))

\* the text branch of jsonify under a compression option
JsonifyTextCompressed(self, compression, obj) ==
    With(_utf8_it([obj EXCEPT !.has = @ \cup {"encoding"}, !.encoding = <<>>]),
         LAMBDA utf8ed :
        IF IsRaised(utf8ed) THEN utf8ed
        ELSE With(_compress_it(compression, utf8ed), LAMBDA compressed :
                 IF IsRaised(compressed) THEN compressed
                 ELSE IF Len(utf8ed.encoding) # Len(compressed.encoding)
                      THEN _base64_it(compressed)
                 ELSE [compressed EXCEPT !.body = self.body,
                                         !.has = @ \ {"encoding"},
                                         !.encoding = <<>>]))

\* the binary branch of jsonify
JsonifyBinary(compression, obj) ==
    With([obj EXCEPT !.has = @ \cup {"encoding"}, !.encoding = <<>>], LAMBDA started :
    With(IF compression # "" THEN _compress_it(compression, started) ELSE started,
         LAMBDA compressed :
        IF IsRaised(compressed) THEN compressed ELSE _base64_it(compressed)))

\* the header field of jsonify: obj["header"] = self.header unless it is empty
JsonifyHeader(self) ==
    IF self.header # EmptyDict
    THEN [EmptyObj EXCEPT !.has = {"header"}, !.header = self.header]
    ELSE EmptyObj

\* Message.jsonify(option); compression is "" when option.get('compression') is
\* None or the empty string (both are false where the code tests it)
jsonify(self, option) ==
    IF option.has /\ ~COMPRESSORS_RE_match(option.compression)
    THEN Raised("MessageError", "unsupported compression type")
    ELSE LET compression == IF option.has THEN option.compression ELSE ""
         IN With(JsonifyHeader(self), LAMBDA obj :
                IF ~Truthy(self.body) THEN obj
                ELSE With([obj EXCEPT !.has = @ \cup {"body"}, !.body = self.body],
                          LAMBDA withBody :
                    IF is_text(self)
                    THEN With([withBody EXCEPT !.has = @ \cup {"text"}, !.text = TRUE],
                              LAMBDA asText :
                             IF compression # ""
                             THEN With(JsonifyTextCompressed(self, compression, asText),
                                       JoinEncoding)
                             ELSE asText)
                    ELSE With(JsonifyBinary(compression, withBody), JoinEncoding)))

----------------------------------------------------------------------------
(* dejsonify *)

\* a validation that looks for an unknown token before an unavailable one
FirstBadToken_UnknownFirst(encoding) ==
    LET unknown == {i \in 1..Len(encoding) : encoding[i] \notin AVAILABLE_DECODING}
        missing == {i \in 1..Len(encoding) :
                       encoding[i] \in COMPRESSORS_SUPPORTED \ compressors}
    IN IF unknown # {} THEN CHOOSE i \in unknown : \A j \in unknown : i <= j
       ELSE IF missing # {} THEN CHOOSE i \in missing : \A j \in missing : i <= j
       ELSE 0

\* the first token dejsonify's validation loop rejects, 0 if it rejects none
FirstBadToken(encoding) ==
    LET bad == {i \in 1..Len(encoding) :
                   \/ encoding[i] \notin AVAILABLE_DECODING
                   \/ (encoding[i] \in COMPRESSORS_SUPPORTED
                       /\ encoding[i] \notin compressors)}
    IN IF bad = {} THEN 0 ELSE CHOOSE i \in bad : \A j \in bad : i <= j

InEncoding(token, encoding) == \E i \in 1..Len(encoding) : encoding[i] = token

\* the loop "for method in _COMPRESSORS: if method in encoding: decompress",
\* over the modules in the order they were imported (that of COMPRESSORS_SUPPORTED)
RECURSIVE DecompressAll(_, _, _)
DecompressAll(methods, encoding, body) ==
    IF methods = <<>> \/ IsRaised(body) THEN body
    ELSE With(IF Head(methods) \in compressors /\ InEncoding(Head(methods), encoding)
              THEN Decompress(Head(methods), body.v)
              ELSE body,
              LAMBDA next : DecompressAll(Tail(methods), encoding, next))

ImportOrder == <<"lz4", "snappy", "zlib">>

\* a dejsonify that undoes the transforms in the order of the tokens
RECURSIVE DejsonifyBody_TokenOrder(_, _)
DejsonifyBody_TokenOrder(encoding, body) ==
    IF encoding = <<>> \/ IsRaised(body) THEN body
    ELSE IF ~is_bytes(body) THEN DejsonifyBody_TokenOrder(Tail(encoding), body)
    ELSE DejsonifyBody_TokenOrder(Tail(encoding),
            IF Head(encoding) = "base64" THEN b64decode(body.v)
            ELSE IF Head(encoding) = "utf8" THEN Utf8Decode(body.v)
            ELSE Decompress(Head(encoding), body.v))

\* the transforms of dejsonify, in its order: base64, decompression, UTF-8
DejsonifyBody(encoding, body) ==
    With(IF InEncoding("base64", encoding) THEN b64decode(body.v) ELSE body,
         LAMBDA decoded :
    With(DecompressAll(ImportOrder, encoding, decoded), LAMBDA decompressed :
        IF IsRaised(decompressed) THEN decompressed
        ELSE IF InEncoding("utf8", encoding) THEN Utf8Decode(decompressed.v)
        ELSE decompressed))

\* a dejsonify that leaves the body as the transforms left it
DejsonifyText_AsDecoded(text, body) == body

\* the end of dejsonify: the body becomes text or binary as the text field says
DejsonifyText(text, body) ==
    IF IsRaised(body) THEN body
    ELSE IF is_bytes(body) THEN IF text THEN Utf8Decode(body.v) ELSE body
    ELSE IF ~text
         THEN IF body = None
              THEN Raised("AttributeError", "NoneType has no encode")
              ELSE Utf8Encode(body.v)
    ELSE body

\* dejsonify(obj): obj.get raises AttributeError on anything but a dict, which
\* becomes MessageError; a body of None has no encode
dejsonify(obj) ==
    IF obj.t # "dict" THEN Raised("MessageError", "dict expected")
    ELSE
    LET text == "text" \in obj.has /\ obj.text
        header == IF "header" \in obj.has THEN obj.header ELSE EmptyDict
        body0 == IF "body" \in obj.has THEN obj.body ELSE DEFAULT_BODY
        encoding == IF "encoding" \in obj.has THEN obj.encoding ELSE <<>>
    IN With(IF encoding # <<>> /\ ~is_bytes(body0)
            THEN IF body0 = None
                 THEN Raised("AttributeError", "NoneType has no encode")
                 ELSE Utf8Encode(body0.v)
            ELSE body0,
            LAMBDA body :
           IF IsRaised(body) THEN body
           ELSE With(FirstBadToken(encoding), LAMBDA bad :
               IF bad # 0
               THEN IF encoding[bad] \notin AVAILABLE_DECODING
                    THEN Raised("MessageError", "decoding not supported")
                    ELSE Raised("MessageError", "decoding supported but not installed")
               ELSE With(DejsonifyBody(encoding, body), LAMBDA decoded :
                    With(DejsonifyText(text, decoded), LAMBDA final :
                        IF IsRaised(final) THEN final
                        ELSE Message(final, Dict(header))))))

----------------------------------------------------------------------------
(* json.dumps / json.loads, and the string layers.                          *)
(* The JSON text of a dict is kept as the dict of its string literals, each *)
(* literal as the sequence of the code units its escapes spell: dumps       *)
(* (ensure_ascii) writes a character above U+FFFF as a surrogate pair, and  *)
(* loads joins a high surrogate escape and the low one that follows it.     *)

IsHigh(u) == u \in 55296..56319

IsLow(u) == u \in 56320..57343

JsonEscape(text) ==
    Flatten([i \in 1..Len(text) |->
        IF text[i] > 65535
        THEN <<55296 + ((text[i] - 65536) \div 1024), 56320 + ((text[i] - 65536) % 1024)>>
        ELSE <<text[i]>>])

JsonUnescape(units) ==
    LET Joined(i) == i > 1 /\ IsLow(units[i]) /\ IsHigh(units[i - 1])
        Kept(i) == ~Joined(i)
        kept == SelectSeq(Indices(Len(units)), Kept)
    IN [k \in 1..Len(kept) |->
           LET i == kept[k]
           IN IF IsHigh(units[i]) /\ i < Len(units) /\ IsLow(units[i + 1])
              THEN 65536 + (units[i] - 55296) * 1024 + (units[i + 1] - 56320)
              ELSE units[i]]

EscapeDict(d) ==
    [k \in {JsonEscape(key) : key \in DOMAIN d} |->
        JsonEscape(d[CHOOSE key \in DOMAIN d : JsonEscape(key) = k])]

UnescapeDict(d) ==
    [k \in {JsonUnescape(key) : key \in DOMAIN d} |->
        JsonUnescape(d[CHOOSE key \in DOMAIN d : JsonUnescape(key) = k])]

\* json.dumps(jsonified): a text string; TypeError on a bytes value
dumps(jsonified) ==
    IF "body" \in jsonified.has /\ is_bytes(jsonified.body)
    THEN Raised("TypeError", "Object of type bytes is not JSON serializable")
    ELSE [t |-> "jsonstr",
          v |-> [jsonified EXCEPT !.body = Str(JsonEscape(@.v)),
                                  !.header = EscapeDict(@)]]

\* a JSON text written out in characters, over the characters { } [ ] 1 and ":
\* it is a value when it is {}, a string of 1s, a quoted string, or [ ] around
\* nothing or around a value (there is no colon, comma or blank to write more)
RECURSIVE IsJsonValue(_)
IsJsonValue(text) ==
    LET n == Len(text)
    IN \/ text = <<123, 125>>
       \/ text = <<110, 117, 108, 108>>
       \/ n > 0 /\ \A i \in 1..n : text[i] = 49
       \/ n >= 2 /\ text[1] = 34 /\ text[n] = 34 /\ \A i \in 2..(n - 1) : text[i] # 34
       \/ /\ n >= 2 /\ text[1] = 91 /\ text[n] = 93
          /\ (n = 2 \/ IsJsonValue(SubSeq(text, 2, n - 1)))

\* the Python value of such a text: a dict, None, a list, an int, a str; ValueError
\* when the text is not JSON
ParseJson(text) ==
    IF ~IsJsonValue(text) THEN Raised("ValueError", "Expecting value")
    ELSE IF text[1] = 123 THEN EmptyObj
    ELSE IF text[1] = 110 THEN None
    ELSE IF text[1] = 91 THEN [t |-> "list", v |-> SubSeq(text, 2, Len(text) - 1)]
    ELSE IF text[1] = 49 THEN [t |-> "int", v |-> text]
    ELSE Str(SubSeq(text, 2, Len(text) - 1))

\* json.loads(string): of the JSON text of a dict, or of a text in characters
loads(string) ==
    IF string.t = "jsonstr"
    THEN [string.v EXCEPT !.body = IF @ = None THEN None ELSE Str(JsonUnescape(@.v)),
                          !.header = UnescapeDict(@)]
    ELSE ParseJson(string.v)

\* Message.stringify(option)
stringify(self, option) ==
    With(jsonify(self, option), LAMBDA jsonified :
        IF IsRaised(jsonified) THEN jsonified
        ELSE LET body == IF "body" \in jsonified.has THEN jsonified.body ELSE Str(<<>>)
             IN IF is_bytes(body)
                THEN With(Utf8Decode(body.v), LAMBDA decoded :
                         IF IsRaised(decoded) THEN decoded
                         ELSE dumps([jsonified EXCEPT !.body = decoded]))
                ELSE dumps(jsonified))

\* str.encode("utf-8") of a JSON text, which dumps keeps within ASCII
EncodeJson(string) == [t |-> "jsonbytes", v |-> string.v]

\* bytes.decode("utf-8") of the encoding of a JSON text
DecodeJson(binary) == [t |-> "jsonstr", v |-> binary.v]

\* Message.serialize(option)
serialize(self, option) ==
    With(stringify(self, option), LAMBDA stringified :
        IF IsRaised(stringified) THEN stringified ELSE EncodeJson(stringified))

\* a destringify that lets the error of json.loads through
destringify_Unwrapped(string) ==
    With(loads(string), LAMBDA jsonified :
        IF IsRaised(jsonified) THEN jsonified ELSE dejsonify(jsonified))

\* destringify(string): the ValueError of json.loads becomes MessageError
destringify(string) ==
    With(loads(string), LAMBDA jsonified :
        IF IsRaised(jsonified)
        THEN Raised("MessageError", "not a valid json string provided")
        ELSE dejsonify(jsonified))

\* deserialize(binary): a bytes value is decoded, UnicodeDecodeError becoming
\* MessageError; any other value goes to destringify as it is
deserialize(binary) ==
    IF binary.t = "jsonbytes" THEN destringify(DecodeJson(binary))
    ELSE IF is_bytes(binary)
         THEN With(Utf8Decode(binary.v), LAMBDA decoded :
                  IF IsRaised(decoded)
                  THEN Raised("MessageError", "not a valid binary string")
                  ELSE destringify(decoded))
    ELSE destringify(binary)

----------------------------------------------------------------------------
(* The inputs of the codec *)

MaxShort == 2

\* A, U+00C0, U+0100, U+1F600 and a lone high surrogate
TextAlphabet == {65, 192, 256, 128512, 55357}

\* A, a line feed, the lead bytes 0xC3 and 0xC4 and the continuation byte 0x80
ByteAlphabet == {65, 10, 195, 196, 128}

SeqsUpTo(alphabet, n) == UNION {[1..k -> alphabet] : k \in 0..n}

Rep(c, n) == [i \in 1..n |-> c]

Alternate(c, d, n) == [i \in 1..n |-> IF i % 2 = 1 THEN c ELSE d]

\* runs single bytes, then one run of c up to length n
Mixed(runs, c, n) == [i \in 1..n |-> IF i <= runs THEN 65 + (i % 2) ELSE c]

\* bodies around COMPRESS_MIN_LEN: runs that compress, alternations that do not,
\* two whose zlib and snappy outputs are 234 bytes (90% of 260, less than 90% of
\* 261), and two texts of 253 and 254 characters that are 254 and 255 bytes of UTF-8
LongTexts ==
    {Rep(65, 254), Rep(65, 255), Alternate(65, 66, 256), Mixed(115, 67, 260),
     Mixed(115, 67, 261), <<192>> \o Rep(65, 252), <<192>> \o Rep(65, 253)}

LongBinaries ==
    {Rep(65, 254), Rep(65, 255), Rep(65, 256), Alternate(65, 66, 256),
     Mixed(115, 67, 260), Mixed(115, 67, 261), Rep(255, 254), Rep(255, 255),
     Alternate(65, 255, 256)}

TextBodies == {Str(s) : s \in SeqsUpTo(TextAlphabet, MaxShort) \cup LongTexts}

BinaryBodies == {Bytes(b) : b \in SeqsUpTo(ByteAlphabet, MaxShort) \cup LongBinaries}

Bodies == TextBodies \cup BinaryBodies

\* header dicts over the keys "a", "b" and the values "x", "yy"
Headers ==
    {EmptyDict, (<<97>> :> <<120>>), (<<98>> :> <<121, 121>>) @@ (<<97>> :> <<120>>)}

\* the builds: zlib alone (the standard library), or all three modules
Builds == {{"zlib"}, COMPRESSORS_SUPPORTED}

\* compression tokens: the three module names, a name with a suffix, an unknown name
Tokens == COMPRESSORS_SUPPORTED \cup {"zlib-9", "gzip"}

Options == {NoOption} \cup {WithCompression(token) : token \in Tokens}

\* {no compression} plus each available compression algorithm
AvailableOptions == {NoOption} \cup {WithCompression(name) : name \in compressors}

NoGenerator == [t |-> "nothing"]

----------------------------------------------------------------------------
(* messaging.generator *)

\* an option that was not given, one given as None, one given as an integer
Unset == [k |-> "unset", n |-> 0]

NoneInt == [k |-> "None", n |-> 0]

Given(n) == [k |-> "int", n |-> n]

MaxRandom == 2

\* the byte values os.urandom draws here
RandomBytes == {0, 171}

\* os.urandom(n): every sequence up to MaxRandom bytes, constant ones beyond
urandom(n) ==
    IF n <= MaxRandom THEN [1..n -> RandomBytes] ELSE {Rep(c, n) : c \in RandomBytes}

HexDigit(d) == IF d < 10 THEN 48 + d ELSE 97 + (d - 10)

\* binascii.hexlify(data)
hexlify(data) ==
    [i \in 1..(2 * Len(data)) |->
        IF i % 2 = 1 THEN HexDigit(data[(i + 1) \div 2] \div 16)
        ELSE HexDigit(data[i \div 2] % 16)]

\* string[0:length], length >= 0
Slice(string, length) == SubSeq(string, 1, IF length < Len(string) THEN length ELSE Len(string))

\* rndint(length): int(rnd * length / 6 + 0.5) for 0 <= rnd < 12
rndint(length) == 0..(2 * length)

\* maybe_randomize(length): the values it may return
maybe_randomize(length) ==
    IF length.k = "int" /\ length.n < 0 THEN {Given(n) : n \in rndint(-length.n)} ELSE {length}

\* a rndbin that returns the whole hexlify
rndbin_Unsliced(length) == {hexlify(u) : u \in urandom((length \div 2) + 1)}

\* rndbin(length): the binary strings it may return
rndbin(length) == {Slice(hexlify(u), length) : u \in urandom((length \div 2) + 1)}

\* rndb64(length): the text strings it may return
rndb64(length) == {Slice(b64encode(b), length) : b \in rndbin(((3 * length) \div 4) + 1)}

\* one round of rndstr's loop: the printable characters of rndbin(int(length * 1.4 + 1))
\* (for the sizes drawn here int(length * 1.4 + 1) is 14 * length \div 10 + 1)
Printable(binary) == SelectSeq(binary, LAMBDA char : char > 31 /\ char < 127)

\* rndstr(length): the loop runs while length > 0, each round taking len(binary) off
\* length; then rnd[0:length] if length is not 0, which for length < 0 drops the last -length
RECURSIVE RndStrLoop(_, _)
RndStrLoop(rnd, length) ==
    IF length > 0
    THEN UNION {RndStrLoop(rnd \o Printable(binary), length - Len(binary)) :
                    binary \in rndbin(((14 * length) \div 10) + 1)}
    ELSE IF length # 0
         THEN {SubSeq(rnd, 1, IF Len(rnd) + length > 0 THEN Len(rnd) + length ELSE 0)}
    ELSE {rnd}

rndstr(length) == RndStrLoop(<<>>, length)

\* "%d" % index, index < 10
Decimal(index) == <<48 + index>>

\* GeneratedBodies with "".encode() replaced by "": size 0 gives the empty text
GeneratedBodies_EmptyText(self) ==
    UNION {IF length.k = "int"
           THEN IF length.n = 0 THEN {Str(<<>>)}
                ELSE IF self.body_content = "base64" THEN {Str(b) : b \in rndb64(length.n)}
                ELSE IF self.body_content = "text" THEN {Str(b) : b \in rndstr(length.n)}
                ELSE IF self.body_content = "binary" THEN {Bytes(b) : b \in rndbin(length.n)}
                ELSE IF self.body_content = "index" THEN {Str(Decimal(self.index))}
                ELSE {Raised("GeneratorError", "invalid body content")}
           ELSE {Str(Decimal(self.index))} : length \in maybe_randomize(self.body_size)}

\* the bodies Generator.message may build; a GeneratorError for another body_content
GeneratedBodies(self) ==
    UNION {IF length.k = "int"
           THEN IF length.n = 0 THEN {Bytes(<<>>)}
                ELSE IF self.body_content = "base64" THEN {Str(b) : b \in rndb64(length.n)}
                ELSE IF self.body_content = "text" THEN {Str(b) : b \in rndstr(length.n)}
                ELSE IF self.body_content = "binary" THEN {Bytes(b) : b \in rndbin(length.n)}
                ELSE IF self.body_content = "index" THEN {Str(Decimal(self.index))}
                ELSE {Raised("GeneratorError", "invalid body content")}
           ELSE {Str(Decimal(self.index))} : length \in maybe_randomize(self.body_size)}

\* "rnd-" and the prefix of header names
HeaderNamePrefix == <<114, 110, 100, 45>>

\* what.replace('+', '-').replace('/', '_')
HeaderSafe(what) ==
    [i \in 1..Len(what) |-> IF what[i] = 43 THEN 45 ELSE IF what[i] = 47 THEN 95 ELSE what[i]]

\* one round of the header loop: the (name, value) items it may store
GeneratedItems(self) ==
    {<<self.header_name_prefix \o HeaderSafe(what), value>> :
        what \in UNION {rndb64(length.n) : length \in maybe_randomize(self.header_name_size)},
        value \in UNION {rndstr(length.n) : length \in maybe_randomize(self.header_value_size)}}

\* the header loop, count rounds: each round stores header[name] = value
RECURSIVE GeneratedHeaders(_, _, _)
GeneratedHeaders(self, count, header) ==
    IF count <= 0 THEN {header}
    ELSE UNION {GeneratedHeaders(self, count - 1,
                    [k \in DOMAIN header \cup {item[1]} |->
                        IF k = item[1] THEN item[2] ELSE header[k]]) :
                item \in GeneratedItems(self)}

\* Generator.__init__(**kwargs): header_value_size and header_name_size default to
\* -32 and -16, header_name_prefix to "rnd-"; body_size and header_count stay unset
Generator(body_content, body_size, header_count, header_value_size, header_name_size) ==
    [body_content |-> body_content, body_size |-> body_size,
     header_count |-> header_count,
     header_value_size |->
         IF header_value_size.k = "unset" THEN Given(-32) ELSE header_value_size,
     header_name_size |->
         IF header_name_size.k = "unset" THEN Given(-16) ELSE header_name_size,
     header_name_prefix |-> HeaderNamePrefix,
     index |-> 0]

\* Generator.message(): the (message or error, generator afterwards) pairs it may
\* end in. With header_count None the message is returned before the index moves;
\* a header size of None is a TypeError in the first round of the loop.
GeneratorMessage(self) ==
    UNION {IF IsRaised(body) THEN {<<body, self>>}
           ELSE UNION {IF count.k = "None"
                       THEN {<<Message(body, Dict(EmptyDict)), self>>}
                       ELSE IF /\ count.n > 0
                               /\ \/ self.header_name_size.k # "int"
                                  \/ self.header_value_size.k # "int"
                       THEN {<<Raised("TypeError", "unsupported operand type"), self>>}
                       ELSE {<<Message(body, Dict(header)),
                               [self EXCEPT !.index = @ + 1]>> :
                                header \in GeneratedHeaders(self, count.n, EmptyDict)} :
                   count \in maybe_randomize(IF self.header_count.k = "unset"
                                             THEN Given(0) ELSE self.header_count)} :
        body \in GeneratedBodies(self)}

----------------------------------------------------------------------------
(* Spec: a message is built by the constructor, converted by one of the     *)
(* three forward layers under some option, and the result converted back.   *)

Init ==
    /\ compressors \in Builds
    /\ heap = <<>>
    /\ \E body \in Bodies \cup {None}, header \in {Dict(h) : h \in Headers} \cup {None} :
           msg = Message(body, header)
    /\ msg_b = Nothing
    /\ opt = NoOption
    /\ out = Nothing
    /\ back = Nothing
    /\ gen = NoGenerator
    /\ pc = "new"

Jsonify ==
    /\ pc = "new"
    /\ \E option \in Options :
           /\ opt' = option
           /\ out' = jsonify(msg, option)
    /\ pc' = "jsonified"
    /\ UNCHANGED <<compressors, heap, msg, msg_b, back, gen>>

Stringify ==
    /\ pc = "new"
    /\ \E option \in Options :
           /\ opt' = option
           /\ out' = stringify(msg, option)
    /\ pc' = "stringified"
    /\ UNCHANGED <<compressors, heap, msg, msg_b, back, gen>>

Serialize ==
    /\ pc = "new"
    /\ \E option \in Options :
           /\ opt' = option
           /\ out' = serialize(msg, option)
    /\ pc' = "serialized"
    /\ UNCHANGED <<compressors, heap, msg, msg_b, back, gen>>

Dejsonify ==
    /\ pc = "jsonified"
    /\ ~IsRaised(out)
    /\ back' = dejsonify(out)
    /\ pc' = "dejsonified"
    /\ UNCHANGED <<compressors, heap, msg, msg_b, opt, out, gen>>

Destringify ==
    /\ pc = "stringified"
    /\ ~IsRaised(out)
    /\ back' = destringify(out)
    /\ pc' = "destringified"
    /\ UNCHANGED <<compressors, heap, msg, msg_b, opt, out, gen>>

Deserialize ==
    /\ pc = "serialized"
    /\ ~IsRaised(out)
    /\ back' = deserialize(out)
    /\ pc' = "deserialized"
    /\ UNCHANGED <<compressors, heap, msg, msg_b, opt, out, gen>>

Next ==
    \/ Jsonify
    \/ Stringify
    \/ Serialize
    \/ Dejsonify
    \/ Destringify
    \/ Deserialize

Spec == Init /\ [][Next]_vars

----------------------------------------------------------------------------
(* SpecMsg: two messages are built by the constructor and then changed       *)
(* through the public properties body, header and text.                      *)

\* the values assigned to body: None, an empty and a non-empty text, an empty and a
\* non-empty binary string
AssignedBodies == {None, Str(<<>>), Str(<<65>>), Bytes(<<>>), Bytes(<<65>>)}

AssignedHeaders == {Dict(h) : h \in Headers} \cup {None}

\* msg = Message(body, header), msg_b = Message(body, header); Message() is
\* Message(DEFAULT_BODY, None)
InitMsg ==
    /\ compressors = {"zlib"}
    /\ heap = <<>>
    /\ \E body \in AssignedBodies \cup {DEFAULT_BODY}, header \in AssignedHeaders :
           msg = Message(body, header)
    /\ \E body \in AssignedBodies \cup {DEFAULT_BODY}, header \in AssignedHeaders :
           msg_b = Message(body, header)
    /\ opt = NoOption
    /\ out = Nothing
    /\ back = Nothing
    /\ gen = NoGenerator
    /\ pc = "message"

\* msg.body = value
SetBody(value) ==
    /\ pc = "message"
    /\ msg' = set_body(msg, value)
    /\ UNCHANGED <<compressors, heap, msg_b, opt, out, back, gen, pc>>

\* msg.header = value
SetHeader(value) ==
    /\ pc = "message"
    /\ msg' = set_header(msg, value)
    /\ UNCHANGED <<compressors, heap, msg_b, opt, out, back, gen, pc>>

\* msg.text = value
SetText(value) ==
    /\ pc = "message"
    /\ msg' = set_text(msg, value)
    /\ UNCHANGED <<compressors, heap, msg_b, opt, out, back, gen, pc>>

\* the same three assignments on the second message
SetBodyB(value) ==
    /\ pc = "message"
    /\ msg_b' = set_body(msg_b, value)
    /\ UNCHANGED <<compressors, heap, msg, opt, out, back, gen, pc>>

SetHeaderB(value) ==
    /\ pc = "message"
    /\ msg_b' = set_header(msg_b, value)
    /\ UNCHANGED <<compressors, heap, msg, opt, out, back, gen, pc>>

SetTextB(value) ==
    /\ pc = "message"
    /\ msg_b' = set_text(msg_b, value)
    /\ UNCHANGED <<compressors, heap, msg, opt, out, back, gen, pc>>

NextMsg ==
    \/ \E value \in AssignedBodies : SetBody(value)
    \/ \E value \in AssignedHeaders : SetHeader(value)
    \/ \E value \in BOOLEAN : SetText(value)
    \/ \E value \in AssignedBodies : SetBodyB(value)
    \/ \E value \in AssignedHeaders : SetHeaderB(value)
    \/ \E value \in BOOLEAN : SetTextB(value)

SpecMsg == InitMsg /\ [][NextMsg]_vars

----------------------------------------------------------------------------
(* SpecGen: a Generator is built from its options, message() is called, and  *)
(* the message goes through a forward layer and back.                        *)

MaxIndex == 2

\* the body_size and header_count options: not given, None, fixed, randomized, and
\* for body_size the two sizes around COMPRESS_MIN_LEN
BodySizes == {Unset, NoneInt, Given(0), Given(1), Given(2), Given(-1),
              Given(COMPRESS_MIN_LEN), Given(COMPRESS_MIN_LEN + 1)}

HeaderCounts == {Unset, NoneInt, Given(0), Given(2), Given(-1)}

\* (header_name_size, header_value_size)
HeaderSizes == {<<Given(1), Given(1)>>, <<Given(-1), Given(0)>>}

\* every body option with no header or one header field, and every header option
\* with the default body, plus generators with an invalid body_content
Generators ==
    {Generator(body_content, body_size, header_count, Given(1), Given(1)) :
        body_content \in {"index", "text", "binary", "base64"},
        body_size \in BodySizes, header_count \in {Unset, Given(1)}}
    \cup {Generator("index", Unset, header_count, sizes[2], sizes[1]) :
            header_count \in HeaderCounts, sizes \in HeaderSizes}
    \cup {Generator("bogus", body_size, Unset, Given(1), Given(1)) :
            body_size \in {Unset, NoneInt, Given(0), Given(1), Given(-1)}}

InitGen ==
    /\ compressors \in Builds
    /\ heap = <<>>
    /\ gen \in Generators
    /\ msg = Nothing
    /\ msg_b = Nothing
    /\ opt = NoOption
    /\ out = Nothing
    /\ back = Nothing
    /\ pc = "generator"

\* msg = gen.message()
GenMessage ==
    /\ pc \in {"generator", "new"}
    /\ gen.index < MaxIndex
    /\ \E result \in GeneratorMessage(gen) :
           /\ gen' = result[2]
           /\ IF IsRaised(result[1])
              THEN /\ out' = result[1]
                   /\ pc' = "failed"
                   /\ UNCHANGED msg
              ELSE /\ msg' = result[1]
                   /\ pc' = "new"
                   /\ UNCHANGED out
    /\ UNCHANGED <<compressors, heap, msg_b, opt, back>>

NextGen ==
    \/ GenMessage
    \/ Jsonify
    \/ Stringify
    \/ Serialize
    \/ Dejsonify
    \/ Destringify
    \/ Deserialize

SpecGen == InitGen /\ [][NextGen]_vars

----------------------------------------------------------------------------
(* Properties of the round trips.                                           *)

\* C1. Claim as stated: for every message (header of strings, body any text or any
\* binary value, the empty ones included) and every option among no compression
\* and the available algorithms, dejsonify(m.jsonify(option)) == m and
\* deserialize(m.serialize(option)) == m. It fails for the empty text body: jsonify
\* drops the body and the text flag, and dejsonify builds an empty binary message.
C1_RoundTripAnyBody ==
    (pc \in {"dejsonified", "deserialized"} /\ opt \in AvailableOptions)
        => (~IsRaised(back) /\ MessageEq(back, msg))

\* C2. For every message Generator.message() produces and every option among no
\* compression and the available algorithms, the three forward layers return a
\* result, and dejsonify, destringify and deserialize of it give a message equal to
\* the generated one (in both directions of ==).
C2_GeneratedRoundTrip ==
    /\ (pc \in {"jsonified", "stringified", "serialized"} /\ opt \in AvailableOptions)
           => ~IsRaised(out)
    /\ (pc \in {"dejsonified", "destringified", "deserialized"}
        /\ opt \in AvailableOptions)
           => (~IsRaised(back) /\ MessageEq(back, msg) /\ MessageEq(msg, back))

\* C2 witness: a generated text body of COMPRESS_MIN_LEN characters with a header
\* field went through stringify with zlib, was compressed, and came back equal
C2_Witness ==
    /\ pc = "destringified"
    /\ opt = WithCompression("zlib")
    /\ gen.body_content = "text"
    /\ Len(msg.body.v) = COMPRESS_MIN_LEN
    /\ msg.header # EmptyDict
    /\ InEncoding("zlib", out.v.encoding)
    /\ MessageEq(back, msg)

\* C3. Claim as stated: for every message and every available option, the message
\* deserialize(m.serialize(option)) has the md5() and the size() of m. It fails
\* with C1: the empty text body comes back binary, and md5 covers the text flag.
C3_ChecksumAndSizeKept ==
    (pc = "deserialized" /\ opt \in AvailableOptions)
        => (~IsRaised(back) /\ md5(back) = md5(msg) /\ size(back) = size(msg))

----------------------------------------------------------------------------
(* Properties of the Message object.                                        *)

\* C4. Claim as stated: a == b exactly when the is_text flags are equal, the bodies
\* are equal and the headers hold the same key -> value pairs (so == is symmetric).
\* It fails: __eq__ looks up only the keys of a's header in b's.
C4_EqualityIsStructural ==
    MessageEq(msg, msg_b)
        <=> (is_text(msg) = is_text(msg_b) /\ msg.body = msg_b.body
             /\ msg.header = msg_b.header)

\* C5. Claim as stated: in every state reached through the constructor and the
\* assignments of body, header and text, is_text() is true exactly when the body
\* held (the one assigned last) is text.
C5_FlagMatchesBody == is_text(msg) = ~is_bytes(msg.body)

\* C5, amended. After the constructor and after every assignment of body, is_text()
\* is true exactly when the assigned body is text (None counting as the binary
\* DEFAULT_BODY); an assignment of header leaves is_text() as it was; an assignment
\* of text makes is_text() the assigned value, whatever the body is.
C5_FlagFollowsAssignment ==
    /\ is_text(msg) = ~is_bytes(msg.body)
    /\ [][/\ \A value \in AssignedBodies :
               SetBody(value) => (/\ is_text(msg') = (value # None /\ ~is_bytes(value))
                                  /\ is_text(msg') = ~is_bytes(msg'.body))
          /\ \A value \in AssignedHeaders :
               SetHeader(value) => (is_text(msg') = is_text(msg))
          /\ \A value \in BOOLEAN :
               SetText(value) => (is_text(msg') = value /\ msg'.body = msg.body)]_vars

\* C5 witness: a text body with is_text() false, and a binary body with is_text()
\* true on the other message, both left by assignments of text
C5_Witness ==
    /\ pc = "message"
    /\ ~is_bytes(msg.body) /\ ~is_text(msg)
    /\ is_bytes(msg_b.body) /\ is_text(msg_b)

\* C6. Claim as stated: Message() has an empty header mapping, an empty body and
\* is_text() true.
C6_DefaultIsText ==
    (pc = "message" /\ msg = Message(DEFAULT_BODY, None))
        => (msg.header = EmptyDict /\ Len(msg.body.v) = 0 /\ is_text(msg))

\* C6, amended. Message() has an empty header mapping (not None), the empty binary
\* body, and is_text() false.
C6_DefaultIsBinary ==
    (pc = "message" /\ msg = Message(DEFAULT_BODY, None))
        => (/\ msg.header = EmptyDict
            /\ msg.body = Bytes(<<>>)
            /\ ~is_text(msg)
            /\ msg = Message(None, Dict(EmptyDict)))

\* C6 witness: both messages are Message(), binary and equal to each other
C6_Witness ==
    /\ pc = "message"
    /\ msg = NewMessage
    /\ msg_b = NewMessage
    /\ is_bytes(msg.body) /\ ~is_text(msg)
    /\ MessageEq(msg, msg_b)

----------------------------------------------------------------------------
(* Properties of jsonify.                                                   *)

\* option is accepted: jsonify does not reject its compression token
Accepted(option) == ~(option.has /\ ~COMPRESSORS_RE_match(option.compression))

\* the bytes cannot go into the object as they are: they are not UTF-8, or they
\* decode to a text with a character in U+0000-001F or U+007F-00FF
NeedsBase64(binary) ==
    With(Utf8Decode(binary), LAMBDA decoded :
        IsRaised(decoded) \/ EX_BASE64_RE_search(decoded.v))

\* the bytes of the body that _compress_it is given
Handed(self) == IF is_text(self) THEN Utf8Encode(self.body.v).v ELSE self.body.v

\* the object records the compression token of the option
Recorded(option, obj) ==
    "encoding" \in obj.has /\ InEncoding(option.compression, obj.encoding)

\* C7. For every message with an empty body (text or binary) and every accepted
\* option, jsonify returns an object without body, text and encoding, with the
\* header field exactly when the header is not empty; Message().jsonify() is {}.
C7_EmptyBodyJsonify ==
    (pc = "jsonified" /\ Len(msg.body.v) = 0 /\ Accepted(opt))
        => (/\ ~IsRaised(out)
            /\ out.has = (IF msg.header # EmptyDict THEN {"header"} ELSE {})
            /\ ("header" \in out.has => out.header = msg.header)
            /\ ((msg = NewMessage /\ ~opt.has) => out.has = {}))

\* C7 witness: an empty text body with a header, under a compression option, gave
\* an object holding the header only
C7_Witness ==
    /\ pc = "jsonified"
    /\ msg.body = Str(<<>>)
    /\ msg.header # EmptyDict
    /\ opt = WithCompression("zlib")
    /\ out.has = {"header"}

Worth(option, self) ==
    With(Handed(self), LAMBDA handed :
        /\ Len(handed) >= COMPRESS_MIN_LEN
        /\ Len(Compress(option.compression, handed)) * RatioDen < Len(handed) * RatioNum)

C10_ShortBodyNoEncoding ==
    (pc = "jsonified" /\ ~IsRaised(out) /\ opt.has /\ opt \in AvailableOptions
     /\ Len(Handed(msg)) < COMPRESS_MIN_LEN)
        => (/\ "encoding" \notin out.has
            /\ "body" \in out.has => out.body = msg.body)

\* C10, amended. For a body shorter than 255 bytes (those of its UTF-8 encoding for
\* a text body) and every available compression option, no compression token is
\* recorded and the body is not compressed: the object has no encoding field and
\* the body as it is, except for a non-empty binary body that needs base64, whose
\* object has encoding "base64" and the base64 of the original bytes.
C10_ShortBodyNotCompressed ==
    (pc = "jsonified" /\ ~IsRaised(out) /\ opt.has /\ opt \in AvailableOptions
     /\ Len(Handed(msg)) < COMPRESS_MIN_LEN)
        => (/\ ~Recorded(opt, out)
            /\ IF ~is_text(msg) /\ Len(msg.body.v) > 0 /\ NeedsBase64(msg.body.v)
               THEN /\ "encoding" \in out.has
                    /\ out.encoding = <<"base64">>
                    /\ out.body = Bytes(b64encode(msg.body.v))
               ELSE /\ "encoding" \notin out.has
                    /\ "body" \in out.has => out.body = msg.body)

\* C10 witness: a binary body of 254 bytes, not UTF-8, under zlib: encoding is
\* "base64" alone although a run of 254 equal bytes would compress
C10_Witness ==
    /\ pc = "jsonified"
    /\ opt = WithCompression("zlib")
    /\ msg.body = Bytes(Rep(255, 254))
    /\ ~IsRaised(out)
    /\ out.encoding = <<"base64">>
    /\ "encoding" \in out.has

----------------------------------------------------------------------------
(* Properties of the option check of jsonify.                               *)

\* C11. Claim as stated: for every message and every compression token that is
\* not one of lz4, snappy, zlib, jsonify fails with MessageError and returns no
\* object. It fails: _COMPRESSORS_RE is matched at the start of the token only, so
\* a token that begins with the name of an imported module passes.
C11_UnknownTokenRejected ==
    (pc = "jsonified" /\ opt.has /\ opt.compression \notin COMPRESSORS_SUPPORTED)
        => out = Raised("MessageError", "unsupported compression type")

\* C12. Claim as stated: a token that names a recognized algorithm which this build
\* has not imported passes the option check, so jsonify of a message with an empty
\* body or a body shorter than 255 bytes succeeds.
C12_UnavailableDeferred ==
    (/\ pc = "jsonified"
     /\ opt.has /\ opt.compression \in COMPRESSORS_SUPPORTED \ compressors
     /\ Len(msg.body.v) < COMPRESS_MIN_LEN)
        => ~IsRaised(out)

\* C12, amended. In a build that imported at least one compression module, a token
\* that names a recognized algorithm this build has not imported is rejected by
\* the option check: jsonify fails with MessageError "unsupported compression
\* type" for every message, the empty body and the bodies shorter than 255 bytes
\* included, as it does for an unknown token.
C12_UnavailableRejected ==
    (/\ pc = "jsonified"
     /\ compressors # {}
     /\ opt.has /\ opt.compression \in COMPRESSORS_SUPPORTED \ compressors)
        => out = Raised("MessageError", "unsupported compression type")

\* C12 witness: the build has zlib only, the token is lz4, the body is empty, and
\* jsonify raised MessageError
C12_Witness ==
    /\ pc = "jsonified"
    /\ compressors = {"zlib"}
    /\ opt = WithCompression("lz4")
    /\ Len(msg.body.v) = 0
    /\ out = Raised("MessageError", "unsupported compression type")

----------------------------------------------------------------------------
(* SpecWire: an object, a text or a binary string comes from a peer and goes *)
(* through dejsonify, destringify or deserialize; out holds what came in as  *)
(* if a peer had jsonified, stringified or serialized it.                    *)

MaxTokens == 2

MaxRaw == 2

\* the tokens of an encoding field: two transforms, two modules, an unknown name
WireTokens == {"base64", "utf8", "zlib", "lz4", "gzip"}

\* the encoding fields: the tokens of WireTokens in every order, none twice
Encodings ==
    UNION {{e \in [1..k -> WireTokens] : \A i, j \in 1..k : e[i] = e[j] => i = j} :
            k \in 0..MaxTokens}

\* what a body may carry: "A", the UTF-8 of U+0100, each also compressed by zlib,
\* and by zlib then lz4
Carried ==
    UNION {{payload, Compress("zlib", payload),
            Compress("lz4", Compress("zlib", payload))} :
            payload \in {<<65>>, <<196, 128>>}}

\* the body fields: null, texts (one with a lone surrogate), the base64 of what
\* is carried as a text, and what is carried as a binary string
WireTextBodies ==
    {None, Str(<<65>>), Str(<<256>>), Str(<<55357>>)}
    \cup {Str(b64encode(carried)) : carried \in Carried}

WireBodies == WireTextBodies \cup {Bytes(carried) : carried \in Carried}

\* the dicts with the given body fields: each of header, body, text and encoding
\* there or not
WireDicts(bodies) ==
    {[t |-> "dict",
      has |-> (IF header # EmptyDict THEN {"header"} ELSE {})
              \cup (IF body # Nothing THEN {"body"} ELSE {})
              \cup (IF text # Nothing THEN {"text"} ELSE {})
              \cup (IF encoding # <<>> THEN {"encoding"} ELSE {}),
      header |-> header,
      body |-> IF body # Nothing THEN body ELSE DEFAULT_BODY,
      text |-> IF text # Nothing THEN text.v ELSE FALSE,
      encoding |-> encoding] :
        header \in {EmptyDict, (<<97>> :> <<120>>)},
        body \in bodies \cup {Nothing},
        text \in {Nothing, [t |-> "bool", v |-> TRUE], [t |-> "bool", v |-> FALSE]},
        encoding \in Encodings}

\* {"body": "hello world!", "header": {"h1": "val1"}}
Fixture ==
    [t |-> "dict", has |-> {"header", "body"},
     header |-> (<<104, 49>> :> <<118, 97, 108, 49>>),
     body |-> Str(<<104, 101, 108, 108, 111, 32, 119, 111, 114, 108, 100, 33>>),
     text |-> FALSE, encoding |-> <<>>]

\* values that are not dicts: a list, a str, an int, None, a bytes
NonMappings ==
    {[t |-> "list", v |-> <<>>], Str(<<65>>), [t |-> "int", v |-> <<49>>], None,
     Bytes(<<65>>)}

\* texts in the characters { } [ ] 1 and ", the text null and the text [1]
RawTexts ==
    {Str(text) : text \in SeqsUpTo({123, 125, 91, 93, 49, 34}, MaxRaw)
                           \cup {<<110, 117, 108, 108>>, <<91, 49, 93>>}}

\* binary strings in the same characters and the byte 0xFF, which is not UTF-8
RawBinaries ==
    {Bytes(b) : b \in SeqsUpTo({123, 125, 91, 93, 49, 34, 255}, MaxRaw)
                     \cup {<<110, 117, 108, 108>>, <<91, 49, 93>>}}

\* the JSON text of a dict whose values are texts or null
JsonText(obj) ==
    [t |-> "jsonstr",
     v |-> [obj EXCEPT !.body = IF @ = None THEN None ELSE Str(JsonEscape(@.v)),
                       !.header = EscapeDict(@)]]

WireObjects == WireDicts(WireBodies) \cup {Fixture} \cup NonMappings

WireTexts == {JsonText(obj) : obj \in WireDicts(WireTextBodies) \cup {Fixture}} \cup RawTexts

\* deserialize is given a binary string, or a text as in message_example
WireBinaries ==
    {EncodeJson(JsonText(obj)) : obj \in WireDicts(WireTextBodies) \cup {Fixture}}
    \cup RawBinaries \cup {JsonText(Fixture)}

InitWire ==
    /\ compressors \in Builds
    /\ heap = <<>>
    /\ msg = Nothing
    /\ msg_b = Nothing
    /\ opt = NoOption
    /\ back = Nothing
    /\ gen = NoGenerator
    /\ \/ pc = "jsonified" /\ out \in WireObjects
       \/ pc = "stringified" /\ out \in WireTexts
       \/ pc = "serialized" /\ out \in WireBinaries

\* the orders of the tokens of an encoding
Orders(encoding) ==
    {[i \in 1..Len(encoding) |-> encoding[order[i]]] :
        order \in {f \in [1..Len(encoding) -> 1..Len(encoding)] :
                      \A i, j \in 1..Len(encoding) : f[i] = f[j] => i = j}}

\* dejsonify of the same object with the tokens of its encoding in another order
DejsonifyPermuted ==
    /\ pc = "dejsonified"
    /\ out.t = "dict"
    /\ \E encoding \in Orders(out.encoding) \ {out.encoding} :
           msg_b' = dejsonify([out EXCEPT !.encoding = encoding])
    /\ pc' = "permuted"
    /\ UNCHANGED <<compressors, heap, msg, opt, out, back, gen>>

NextWire ==
    \/ Dejsonify
    \/ Destringify
    \/ Deserialize
    \/ DejsonifyPermuted

SpecWire == InitWire /\ [][NextWire]_vars

----------------------------------------------------------------------------
(* C13: dejsonify undoes base64, then the compression, then UTF-8, whatever *)
(* the order of the tokens of the encoding: two objects that differ only by *)
(* the order of the tokens give equal messages, or both fail.               *)

C13_TokenOrderIrrelevant ==
    pc = "permuted" =>
        \/ IsRaised(back) /\ IsRaised(msg_b)
        \/ /\ ~IsRaised(back) /\ ~IsRaised(msg_b)
           /\ MessageEq(back, msg_b) /\ MessageEq(msg_b, back)
           /\ back = msg_b

\* the tokens "zlib+base64" and "base64+zlib" both give the message b"A"
C13_Witness ==
    /\ pc = "permuted"
    /\ out.encoding = <<"zlib", "base64">>
    /\ out.body = Str(b64encode(Compress("zlib", <<65>>)))
    /\ back = Message(Bytes(<<65>>), Dict(EmptyDict))
    /\ msg_b = back

----------------------------------------------------------------------------
(* C14: an encoding with a token that dejsonify does not know, or with the  *)
(* name of a module that was not imported, is refused with MessageError     *)
(* before any transform, and no message is returned.  The token that comes  *)
(* first in the encoding decides between "decoding not supported" and       *)
(* "decoding supported but not installed"; the body is made a binary string *)
(* before the tokens are looked at, so a null body fails with               *)
(* AttributeError and a text that UTF-8 cannot encode with                  *)
(* UnicodeEncodeError.                                                      *)

Vocabulary == {"base64", "utf8", "lz4", "snappy", "zlib"}

UnknownAt(i) == out.encoding[i] \notin Vocabulary

UnavailableAt(i) == out.encoding[i] \in {"lz4", "snappy", "zlib"} \ compressors

\* dejsonify was given a dict whose encoding has an offending token
C14_Case ==
    /\ pc = "dejsonified"
    /\ out.t = "dict"
    /\ \E i \in 1..Len(out.encoding) : UnknownAt(i) \/ UnavailableAt(i)

\* the claim as stated: an unknown token anywhere gives "decoding not supported",
\* an unavailable one "decoding supported but not installed"
C14_UnknownThenUnavailable ==
    C14_Case =>
        /\ (\E i \in 1..Len(out.encoding) : UnknownAt(i))
               => back = Raised("MessageError", "decoding not supported")
        /\ (\E i \in 1..Len(out.encoding) : UnavailableAt(i))
               => back = Raised("MessageError", "decoding supported but not installed")

C14_FirstOffenderDecides ==
    C14_Case =>
        IF "body" \in out.has /\ out.body = None
        THEN back = Raised("AttributeError", "NoneType has no encode")
        ELSE IF "body" \in out.has /\ ~is_bytes(out.body)
                /\ IsRaised(Utf8Encode(out.body.v))
        THEN IsRaised(back) /\ back.type = "UnicodeEncodeError"
        ELSE /\ (\E i \in 1..Len(out.encoding) :
                    UnknownAt(i) /\ \A j \in 1..(i - 1) : ~UnavailableAt(j))
                   => back = Raised("MessageError", "decoding not supported")
             /\ (\E i \in 1..Len(out.encoding) :
                    UnavailableAt(i) /\ \A j \in 1..(i - 1) : ~UnknownAt(j))
                   => back = Raised("MessageError",
                                   "decoding supported but not installed")

\* "lz4+gzip" where lz4 was not imported: lz4 comes first and decides
C14_Witness ==
    /\ C14_Case
    /\ compressors = {"zlib"}
    /\ out.encoding = <<"lz4", "gzip">>
    /\ out.body = Bytes(<<65>>)
    /\ back = Raised("MessageError", "decoding supported but not installed")

----------------------------------------------------------------------------
(* C15: each layer refuses what it cannot read with its own MessageError    *)
(* and no message: deserialize a binary string that is not UTF-8,           *)
(* destringify a text that is not JSON, dejsonify a value that is not a     *)
(* dict, also when the value is what destringify or deserialize parsed.     *)

\* the text that reaches json.loads, when deserialize or destringify was given
\* a str or a bytes that UTF-8 decodes
C15_Parsed ==
    IF pc = "destringified" /\ out.t = "str" THEN out
    ELSE IF pc = "deserialized" /\ out.t = "str" THEN out
    ELSE IF pc = "deserialized" /\ out.t = "bytes" THEN Utf8Decode(out.v)
    ELSE Nothing

----------------------------------------------------------------------------
(* C16: the message that dejsonify returns is a text exactly when the text  *)
(* field of the object is true, whatever the encoding, provided the body    *)
(* field is absent or a string; a string body with no text and no encoding  *)
(* gives the binary message of its UTF-8, as in message_example.  A null    *)
(* body with a true text field gives the empty binary message.              *)

\* the dict that reached dejsonify
C16_Object ==
    IF pc = "dejsonified" /\ out.t = "dict" THEN out
    ELSE IF pc \in {"destringified", "deserialized"} /\ out.t = "jsonstr" THEN loads(out)
    ELSE IF pc = "deserialized" /\ out.t = "jsonbytes" THEN loads(DecodeJson(out))
    ELSE Nothing

C16_TextField == "text" \in C16_Object.has /\ C16_Object.text

C16_NullBody == "body" \in C16_Object.has /\ C16_Object.body = None

\* the claim as stated: every accepted dict gives the flag of its text field
C16_FlagIsTextField ==
    (C16_Object # Nothing /\ ~IsRaised(back)) => is_text(back) = C16_TextField

C16_FlagIsTextFieldOfStringBody ==
    /\ (C16_Object # Nothing /\ ~IsRaised(back)) =>
           IF C16_NullBody
           THEN C16_TextField /\ ~is_text(back) /\ back.body = Bytes(<<>>)
           ELSE /\ is_text(back) = C16_TextField
                /\ is_bytes(back.body) = ~C16_TextField
    /\ (C16_Object # Nothing /\ C16_Object.has \cap {"text", "encoding"} = {}
           /\ "body" \in C16_Object.has /\ C16_Object.body.t = "str"
           /\ ~IsRaised(Utf8Encode(C16_Object.body.v)))
           => /\ ~IsRaised(back)
              /\ back.body = Utf8Encode(C16_Object.body.v)
              /\ ~is_text(back)
              /\ back.header = C16_Object.header
    /\ (pc = "deserialized" /\ out = JsonText(Fixture))
           => /\ back = Message(Bytes(<<104, 101, 108, 108, 111, 32,
                                        119, 111, 114, 108, 100, 33>>),
                                Dict(<<104, 49>> :> <<118, 97, 108, 49>>))
              /\ MessageEq(back, Message(Bytes(Fixture.body.v), Dict(Fixture.header)))
              /\ MessageEq(Message(Bytes(Fixture.body.v), Dict(Fixture.header)), back)

\* text true over "zlib+base64": the transforms leave b"A", the message is "A"
C16_Witness ==
    /\ pc = "dejsonified"
    /\ C16_Object # Nothing
    /\ C16_TextField
    /\ out.encoding = <<"zlib", "base64">>
    /\ back = Message(Str(<<65>>), Dict(out.header))
    /\ is_text(back)

----------------------------------------------------------------------------
(* SpecRef: messages and dicts as objects.  A header is a dict object with  *)
(* an identity: heap holds the dicts that exist, each as the sequence of    *)
(* its items in the order of insertion, and a message or a jsonified object *)
(* holds in its header field the index of its dict in heap (0 in an object  *)
(* that has no header field).  msg is m, msg_b its clone, out the object    *)
(* m.jsonify() returned and back the message dejsonify made of it.          *)

MaxCells == 3

\* the items of the headers: a: x, a: y, b: x
HeaderItems == {<<<<97>>, <<120>>>>, <<<<97>>, <<121>>>>, <<<<98>>, <<120>>>>}

\* the dicts a caller may build: items with distinct keys, in any order of insertion
Dicts ==
    {d \in UNION {[1..n -> HeaderItems] : n \in 0..2} :
        \A i, j \in 1..Len(d) : d[i][1] = d[j][1] => i = j}

\* dict.keys(): the keys in the order of insertion
keys(d) == [i \in 1..Len(d) |-> d[i][1]]

\* key in d
has_key(d, key) == \E i \in 1..Len(d) : d[i][1] = key

\* d[key] = value: a key that is there keeps its place
setitem(d, key, value) ==
    IF has_key(d, key)
    THEN [i \in 1..Len(d) |-> IF d[i][1] = key THEN <<key, value>> ELSE d[i]]
    ELSE Append(d, <<key, value>>)

\* del d[key]
delitem(d, key) == SelectSeq(d, LAMBDA item : item[1] # key)

\* the items of a dict as the function from its keys to their values
items(d) ==
    [key \in {d[i][1] : i \in 1..Len(d)} |->
        d[CHOOSE i \in 1..Len(d) : d[i][1] = key][2]]

\* a Message object is a message whose header field is an index in heap
IsMessage(x) == "text" \in DOMAIN x /\ "t" \notin DOMAIN x

\* the message or object with the items of its header in place of the index
ValueIn(h, x) ==
    [x EXCEPT !.header = IF @ = 0 THEN EmptyDict ELSE items(h[@])]

\* what a program can see of a message: flag, body, and its header's items in order
ViewIn(h, x) == [x EXCEPT !.header = h[@]]

\* Message(body, header) with header a dict object: set_header keeps the object
MessageRef(body, address) ==
    [set_body([body |-> None, header |-> EmptyDict, text |-> FALSE], body)
        EXCEPT !.header = address]

\* a clone that shares the header of the message (copy.copy)
deepcopy_Shallow(h, self) == [heap |-> h, result |-> self]

\* copy.deepcopy(self): a new dict with the same items in the same order
deepcopy(h, self) ==
    [heap |-> Append(h, h[self.header]),
     result |-> [self EXCEPT !.header = Len(h) + 1]]

\* a jsonify that takes the header out of the message
jsonify_ref_Taking(h, self, option) ==
    LET obj == jsonify(ValueIn(h, self), option)
    IN [heap |-> [h EXCEPT ![self.header] = <<>>], self |-> self,
        result |-> IF IsRaised(obj) THEN obj
                   ELSE [obj EXCEPT !.header = IF "header" \in obj.has
                                               THEN self.header ELSE 0]]

\* self.jsonify(option): what it leaves of the heap and of self, and the object
\* it returns, whose header field is the dict of the message itself
jsonify_ref(h, self, option) ==
    LET obj == jsonify(ValueIn(h, self), option)
    IN [heap |-> h, self |-> self,
        result |-> IF IsRaised(obj) THEN obj
                   ELSE [obj EXCEPT !.header = IF "header" \in obj.has
                                               THEN self.header ELSE 0]]

\* self.stringify(option): jsonify, then json.dumps of the object
stringify_ref(h, self, option) ==
    LET jsonified == jsonify_ref(h, self, option)
    IN [jsonified EXCEPT
           !.result = stringify(ValueIn(jsonified.heap, jsonified.self), option)]

\* self.serialize(option): stringify, then encode
serialize_ref(h, self, option) ==
    LET stringified == stringify_ref(h, self, option)
    IN [stringified EXCEPT
           !.result = serialize(ValueIn(stringified.heap, stringified.self), option)]

\* dejsonify(obj): the message holds the dict obj.get('header', dict()) returned
dejsonify_ref(h, obj) ==
    LET message == dejsonify(ValueIn(h, obj))
    IN IF IsRaised(message) THEN [heap |-> h, result |-> message]
       ELSE IF obj.header = 0
       THEN [heap |-> Append(h, <<>>),
             result |-> [message EXCEPT !.header = Len(h) + 1]]
       ELSE [heap |-> h, result |-> [message EXCEPT !.header = obj.header]]

\* a md5 that takes the keys as the dict gives them
SortedList_Unsorted(list) == list

\* sorted(list) of a list of distinct keys
SortedList(list) == Sorted({list[i] : i \in 1..Len(list)})

\* self.md5() of a Message object: the lines of the header in the order of
\* sorted(self.header.keys())
md5_ref(h, self) ==
    LET header == items(h[self.header])
        sorted == SortedList(keys(h[self.header]))
        header_c == Utf8Encode(Flatten([i \in 1..Len(sorted) |->
                        sorted[i] \o <<58>> \o header[sorted[i]] \o <<10>>]))
        body_c == IF is_text(self)
                  THEN IF is_bytes(self.body)
                       THEN Raised("AttributeError", "bytes has no encode")
                       ELSE Utf8Encode(self.body.v)
                  ELSE self.body
    IN IF IsRaised(header_c) THEN header_c
       ELSE IF IsRaised(body_c) THEN body_c
       ELSE IF ~is_bytes(body_c) THEN Raised("TypeError", "md5 of str")
       ELSE Md5Hash(<<IF is_text(self) THEN 1 ELSE 0,
                      Md5Hash(header_c.v), Md5Hash(body_c.v)>>)

RefBodies == {DEFAULT_BODY, Str(<<65>>)}

RefOptions == {NoOption, WithCompression("zlib"), WithCompression("gzip")}

\* m = Message(body, header), the header a dict of the caller's
InitRef ==
    /\ compressors = {"zlib"}
    /\ \E d \in Dicts : heap = <<d>>
    /\ \E body \in RefBodies : msg = MessageRef(body, 1)
    /\ msg_b = Nothing
    /\ opt = NoOption
    /\ out = Nothing
    /\ back = Nothing
    /\ gen = NoGenerator
    /\ pc = "message"

\* msg_b = msg.clone()
Clone ==
    /\ msg_b = Nothing
    /\ out = Nothing
    /\ back = Nothing
    /\ Len(heap) < MaxCells
    /\ LET copied == deepcopy(heap, msg)
       IN heap' = copied.heap /\ msg_b' = copied.result
    /\ pc' = "cloned"
    /\ UNCHANGED <<compressors, msg, opt, out, back, gen>>

\* back = msg.md5(), after which the driver only calls it again
Md5 ==
    /\ out = Nothing
    /\ IsMessage(msg_b)
    /\ back' = md5_ref(heap, msg)
    /\ pc' = "md5"
    /\ UNCHANGED <<compressors, heap, msg, msg_b, opt, out, gen>>

\* out = msg.jsonify(option)
JsonifyRef ==
    /\ out = Nothing
    /\ msg_b = Nothing
    /\ back = Nothing
    /\ \E option \in RefOptions :
           LET call == jsonify_ref(heap, msg, option)
           IN heap' = call.heap /\ msg' = call.self /\ out' = call.result
              /\ opt' = option
    /\ pc' = "jsonified"
    /\ UNCHANGED <<compressors, msg_b, back, gen>>

\* out = msg.stringify(option)
StringifyRef ==
    /\ out = Nothing
    /\ msg_b = Nothing
    /\ back = Nothing
    /\ \E option \in RefOptions :
           LET call == stringify_ref(heap, msg, option)
           IN heap' = call.heap /\ msg' = call.self /\ out' = call.result
              /\ opt' = option
    /\ pc' = "stringified"
    /\ UNCHANGED <<compressors, msg_b, back, gen>>

\* out = msg.serialize(option)
SerializeRef ==
    /\ out = Nothing
    /\ msg_b = Nothing
    /\ back = Nothing
    /\ \E option \in RefOptions :
           LET call == serialize_ref(heap, msg, option)
           IN heap' = call.heap /\ msg' = call.self /\ out' = call.result
              /\ opt' = option
    /\ pc' = "serialized"
    /\ UNCHANGED <<compressors, msg_b, back, gen>>

\* back = dejsonify(out)
DejsonifyRef ==
    /\ pc = "jsonified"
    /\ ~IsRaised(out)
    /\ Len(heap) < MaxCells
    /\ LET call == dejsonify_ref(heap, out)
       IN heap' = call.heap /\ back' = call.result
    /\ pc' = "dejsonified"
    /\ UNCHANGED <<compressors, msg, msg_b, opt, out, gen>>

\* d[key] = value or del d[key], on the dict at an address
MutateDict(address) ==
    \E item \in HeaderItems :
        \/ heap' = [heap EXCEPT ![address] = setitem(@, item[1], item[2])]
        \/ /\ has_key(heap[address], item[1])
           /\ heap' = [heap EXCEPT ![address] = delitem(@, item[1])]

\* x.header[key] = value, del x.header[key], and for a message and its clone
\* x.header = dict(), x.body = value
Mutated(x, y) ==
    \/ MutateDict(x.header) /\ y = x
    \/ /\ IsMessage(msg_b)
       /\ Len(heap) < MaxCells
       /\ heap' = Append(heap, <<>>)
       /\ y = [x EXCEPT !.header = Len(heap) + 1]
    \/ /\ IsMessage(msg_b)
       /\ \E value \in RefBodies \cup {None} : y = set_body(x, value)
       /\ UNCHANGED heap

\* a mutation of msg while its clone, or an object made from it, exists
MutateMessage ==
    /\ msg_b # Nothing \/ (out # Nothing /\ ~IsRaised(out) /\ out.t = "dict")
    /\ pc # "md5"
    /\ Mutated(msg, msg')
    /\ pc' = "mutated"
    /\ UNCHANGED <<compressors, msg_b, opt, out, back, gen>>

\* a mutation of the clone
MutateClone ==
    /\ IsMessage(msg_b)
    /\ pc # "md5"
    /\ Mutated(msg_b, msg_b')
    /\ pc' = "clone mutated"
    /\ UNCHANGED <<compressors, msg, opt, out, back, gen>>

\* out['header'][key] = value, del out['header'][key]
MutateObject ==
    /\ out # Nothing /\ ~IsRaised(out) /\ out.t = "dict"
    /\ out.header # 0
    /\ MutateDict(out.header)
    /\ pc' = "object mutated"
    /\ UNCHANGED <<compressors, msg, msg_b, opt, out, back, gen>>

\* a mutation of the message dejsonify returned
MutateBack ==
    /\ pc \in {"dejsonified", "back mutated"}
    /\ IsMessage(back)
    /\ Mutated(back, back')
    /\ pc' = "back mutated"
    /\ UNCHANGED <<compressors, msg, msg_b, opt, out, gen>>

NextRef ==
    \/ Clone
    \/ Md5
    \/ JsonifyRef
    \/ StringifyRef
    \/ SerializeRef
    \/ DejsonifyRef
    \/ MutateMessage
    \/ MutateClone
    \/ MutateObject
    \/ MutateBack

SpecRef == InitRef /\ [][NextRef]_vars

----------------------------------------------------------------------------
(* C17: a clone equals its message and is independent of it: assigning the  *)
(* body or the header of the clone, or setting or deleting a key of its     *)
(* header, leaves the flag, body and header of the message as they were,    *)
(* and a mutation of the message leaves the clone as it was.                *)

C17_CloneIndependent ==
    /\ [](pc = "cloned" =>
             /\ MessageEq(ValueIn(heap, msg_b), ValueIn(heap, msg))
             /\ MessageEq(ValueIn(heap, msg), ValueIn(heap, msg_b))
             /\ msg_b.header # msg.header)
    /\ [][MutateClone => ViewIn(heap', msg') = ViewIn(heap, msg)]_vars
    /\ [][(MutateMessage /\ IsMessage(msg_b))
             => ViewIn(heap', msg_b') = ViewIn(heap, msg_b)]_vars

\* the clone was given another body and other items, the message kept its own
C17_Witness ==
    /\ pc = "clone mutated"
    /\ msg_b.body # msg.body
    /\ msg_b.header # msg.header
    /\ heap[msg.header] = <<<<<<97>>, <<120>>>>>>
    /\ heap[msg_b.header] = <<<<<<98>>, <<120>>>>>>

----------------------------------------------------------------------------
(* C18: md5() depends on the flag, the body and the items of the header     *)
(* only: it is the digest of the flag, the digest of the header lines in    *)
(* the order of the sorted keys and the digest of the body; a second call   *)
(* gives the same value, and so does a message with the same flag, body and *)
(* items inserted in another order.                                         *)

C18_Md5OfContent ==
    /\ [](pc = "md5" =>
             /\ back = md5(ValueIn(heap, msg))
             /\ (ValueIn(heap, msg_b) = ValueIn(heap, msg)
                    => md5_ref(heap, msg_b) = back))
    /\ [][(pc = "md5" /\ Md5) => back' = back]_vars

\* the clone has the items of the message in the other order, and its md5
C18_Witness ==
    /\ pc = "md5"
    /\ heap[msg.header] = <<<<<<98>>, <<120>>>>, <<<<97>>, <<121>>>>>>
    /\ heap[msg_b.header] = <<<<<<97>>, <<121>>>>, <<<<98>>, <<120>>>>>>
    /\ msg_b.body = msg.body
    /\ md5_ref(heap, msg_b) = back

----------------------------------------------------------------------------
(* C19: jsonify, stringify and serialize leave the message as it was: its   *)
(* flag, its body and its header with its items, whether the call returns   *)
(* or fails.                                                                *)

C19_ConversionsLeaveMessage ==
    [][(JsonifyRef \/ StringifyRef \/ SerializeRef)
          => ViewIn(heap', msg') = ViewIn(heap, msg)]_vars

\* serialize failed on a token that is no module, over a header of two items
C19_Witness ==
    /\ pc = "serialized"
    /\ out = Raised("MessageError", "unsupported compression type")
    /\ Len(heap[msg.header]) = 2
    /\ msg.body = Str(<<65>>)

----------------------------------------------------------------------------
(* C20: a message shares no dict with the object jsonify returned nor with  *)
(* the message dejsonify made of it: setting or deleting a key in the       *)
(* header of either leaves the header of the message as it was.             *)

C20_NoSharedHeader ==
    [][(MutateObject \/ MutateBack)
          => ViewIn(heap', msg') = ViewIn(heap, msg)]_vars

----------------------------------------------------------------------------
(* C21: a generator with body_content index counts its messages: the index  *)
(* starts at 0 and each call of message() with body_size unset or not 0     *)
(* returns the text of the index and moves it by one, whatever the header   *)
(* options.                                                                 *)

C21_IndexCountsMessages ==
    /\ [](pc = "generator" => gen.index = 0)
    /\ [][(GenMessage /\ gen.body_content = "index"
             /\ (gen.body_size.k # "int" \/ gen.body_size.n # 0))
            => /\ pc' = "new"
               /\ msg'.body = Str(Decimal(gen.index))
               /\ gen'.index = gen.index + 1]_vars

----------------------------------------------------------------------------
(* C22: with a body_content that is none of index, text, binary and base64, *)
(* message() fails with GeneratorError and returns no message, whatever     *)
(* body_size is.                                                            *)

C22_InvalidContentFails ==
    (gen # NoGenerator
     /\ gen.body_content \notin {"index", "text", "binary", "base64"})
        => \/ pc = "generator"
           \/ /\ pc = "failed"
              /\ out = Raised("GeneratorError", "invalid body content")
              /\ msg = Nothing

----------------------------------------------------------------------------
(* C23: for a size n >= 0, rndbin(n), rndb64(n) and rndstr(n) return        *)
(* exactly n elements, and a generator with body_content text, binary or    *)
(* base64 and body_size n gives a body of length n.                         *)

C23_Sized ==
    gen # NoGenerator /\ gen.body_size.k = "int" /\ gen.body_size.n >= 0

C23_ExactLength ==
    C23_Sized =>
        /\ \A binary \in rndbin(gen.body_size.n) : Len(binary) = gen.body_size.n
        /\ \A text \in rndb64(gen.body_size.n) : Len(text) = gen.body_size.n
        /\ \A text \in rndstr(gen.body_size.n) : Len(text) = gen.body_size.n
        /\ (msg # Nothing /\ gen.body_content \in {"text", "binary", "base64"})
               => Len(msg.body.v) = gen.body_size.n

\* a text body of COMPRESS_MIN_LEN + 1 characters was generated
C23_Witness ==
    /\ C23_Sized
    /\ pc = "new"
    /\ gen.body_content = "text"
    /\ gen.body_size.n = COMPRESS_MIN_LEN + 1
    /\ Len(msg.body.v) = COMPRESS_MIN_LEN + 1
    /\ ~is_bytes(msg.body)

----------------------------------------------------------------------------
(* C24: a generator with a positive header_count n gives every message      *)
(* exactly n header fields, whatever the sizes of the names and values,     *)
(* each name starting with header_name_prefix.                              *)

C24_ExactHeaderCount ==
    (gen # NoGenerator /\ gen.header_count.k = "int" /\ gen.header_count.n > 0
     /\ pc # "generator")
        => /\ msg # Nothing
           /\ Cardinality(DOMAIN msg.header) = gen.header_count.n
           /\ \A name \in DOMAIN msg.header :
                  /\ Len(name) >= Len(gen.header_name_prefix)
                  /\ SubSeq(name, 1, Len(gen.header_name_prefix)) = gen.header_name_prefix

----------------------------------------------------------------------------
(* Properties of the encoding field of jsonify.                             *)

\* C25. Claim as stated: when jsonify compresses a text body and keeps the result,
\* the utf8 token is in the encoding exactly when the text has a character outside
\* the 7-bit range; a compressed pure-ASCII text has an encoding without utf8.
C25_Utf8IffNonAscii ==
    (pc = "jsonified" /\ ~IsRaised(out) /\ is_text(msg) /\ Recorded(opt, out))
        => (InEncoding("utf8", out.encoding)
              <=> \E i \in 1..Len(msg.body.v) : msg.body.v[i] > 127)

\* C25, amended. When jsonify compresses a text body and keeps the result, the
\* utf8 token is always recorded, and recorded first, whether or not the text has
\* a character outside the 7-bit range: the text is always encoded to UTF-8 before
\* it is compressed, and the compression token follows the utf8 token.
C25_Utf8AlwaysRecorded ==
    (pc = "jsonified" /\ ~IsRaised(out) /\ is_text(msg) /\ Recorded(opt, out))
        => /\ Len(out.encoding) >= 2
           /\ out.encoding[1] = "utf8"
           /\ out.encoding[2] = opt.compression

\* C25 witness: a text of 255 letters A was compressed by zlib and the encoding
\* holds utf8 before zlib
C25_Witness ==
    /\ pc = "jsonified"
    /\ msg.body = Str(Rep(65, 255))
    /\ opt = WithCompression("zlib")
    /\ ~IsRaised(out)
    /\ Recorded(opt, out)
    /\ out.encoding[1] = "utf8"

C27_AlwaysSucceeds ==
    (pc \in {"stringified", "serialized"} /\ opt \in AvailableOptions) => ~IsRaised(out)

\* C27, amended. Whenever jsonify leaves the body field byte-valued without the
\* base64 token, those bytes are valid UTF-8, so the decode of stringify cannot
\* fail; stringify and serialize succeed for every message with a binary body, or
\* a text body without a lone surrogate, and every available option. For a text
\* body with a lone surrogate they succeed without a compression option and fail
\* with UnicodeEncodeError under one.
C27_SucceedsIfEncodable ==
    /\ (pc = "jsonified" /\ ~IsRaised(out) /\ "body" \in out.has /\ is_bytes(out.body)
         /\ ~("encoding" \in out.has /\ InEncoding("base64", out.encoding)))
            => ~IsRaised(Utf8Decode(out.body.v))
    /\ (pc \in {"stringified", "serialized"} /\ opt \in AvailableOptions)
            => IF is_text(msg) /\ opt.has /\ IsRaised(Utf8Encode(msg.body.v))
               THEN IsRaised(out) /\ out.type = "UnicodeEncodeError"
               ELSE ~IsRaised(out)

\* C27 witness: the binary body C4 80, the UTF-8 of U+0100, went through jsonify
\* without base64 and stringify decoded it into the JSON text
C27_Witness ==
    /\ pc = "stringified"
    /\ msg.body = Bytes(<<196, 128>>)
    /\ opt = WithCompression("zlib")
    /\ ~IsRaised(out)
    /\ "encoding" \notin out.v.has
    /\ out.v.body = Str(<<256>>)

----------------------------------------------------------------------------
(* Properties of equality and of the setters.                               *)

\* C28. Equality is consistent with the checksum and the size: for all messages a
\* and b, a == b implies a.md5() == b.md5() and a.size() == b.size().
C28_EqualImpliesSameDigest ==
    MessageEq(msg, msg_b) => (md5(msg) = md5(msg_b) /\ size(msg) = size(msg_b))

\* C29. In every state reached through the constructor and the assignments of
\* header and body, None included, the header is a mapping and the body a text or
\* binary string, never None: assigning None gives the empty mapping and the empty
\* binary body, Message(header=None) == Message(header={}), and get_text never
\* finds the body to be None.
C29_NeverNone ==
    /\ \A m \in {msg, msg_b, set_body(msg, None), set_header(msg, None)} :
           /\ m.body # None
           /\ m.body.t \in {"str", "bytes"}
           /\ m.header \in Headers
           /\ is_text(m) = m.text
    /\ set_body(msg, None).body = Bytes(<<>>)
    /\ set_header(msg, None).header = EmptyDict
    /\ MessageEq(Message(msg.body, None), Message(msg.body, Dict(EmptyDict)))
    /\ MessageEq(Message(msg.body, Dict(EmptyDict)), Message(msg.body, None))

\* C29 witness: msg is what assigning None to the body and to the header of msg_b
\* gives, msg_b holding a text body and a header with a field
C29_Witness ==
    /\ pc = "message"
    /\ msg_b.body = Str(<<65>>)
    /\ msg_b.header # EmptyDict
    /\ msg = set_header(set_body(msg_b, None), None)
    /\ msg.body = Bytes(<<>>)
    /\ msg.header = EmptyDict

----------------------------------------------------------------------------
(* Errors of the inverse layers.                                            *)

\* C30. Every failure of dejsonify, destringify or deserialize reaches the caller
\* as MessageError: a body that is not base64, data that cannot be decompressed
\* or bytes that are not UTF-8 never escape as an exception of another type.
C30_FailuresAreMessageError ==
    (pc \in {"dejsonified", "destringified", "deserialized"} /\ IsRaised(back))
        => back.type = "MessageError"

====
